---- MODULE Spec2Model ----
(***************************************************************************)
(* State-machine model of fluffy's storage backends                        *)
(* (server/fluffy/backends.py): FileBackend, S3CommandLineBackend,         *)
(* KloudlessBackend, DebugBackend, BackendException and get_backend.       *)
(*                                                                         *)
(* Text is a sequence of one-character strings; bytes are integers.        *)
(* A format template is a sequence whose elements are characters or the    *)
(* replacement field "{name}".  Messages are sequences of text pieces.     *)
(* The print() calls of the source write to stdout only and are not        *)
(* modelled.                                                               *)
(***************************************************************************)
EXTENDS Integers, Sequences, FiniteSets, TLC

(* ------------------------------ bounds -------------------------------- *)

\* number of store() invocations in one run
NumCalls == 2

\* number of get_backend() invocations in one run
MaxGetCalls == 2

Calls == 1..NumCalls

(* ------------------------- text and templates ------------------------- *)

Field == "{name}"

RECURSIVE Concat(_)
\* b"".join(seqs): the concatenation of a sequence of sequences
Concat(seqs) ==
  IF seqs = <<>> THEN <<>> ELSE Head(seqs) \o Concat(Tail(seqs))

RECURSIVE FormatTruncates(_, _)
\* a substitution that inserts only the first character of the value
FormatTruncates(template, value) ==
  IF template = <<>> THEN <<>>
  ELSE (IF Head(template) = Field THEN <<Head(value)>>
        ELSE <<Head(template)>>)
         \o FormatTruncates(Tail(template), value)

RECURSIVE Format(_, _)
\* template.format(name=value): every replacement field is replaced by the
\* value; literal text is copied; the inserted value is not scanned again.
Format(template, value) ==
  IF template = <<>> THEN <<>>
  ELSE (IF Head(template) = Field THEN value ELSE <<Head(template)>>)
       \o Format(Tail(template), value)

Digit(d) ==
  CASE d = 0 -> "0" [] d = 1 -> "1" [] d = 2 -> "2" [] d = 3 -> "3"
    [] d = 4 -> "4" [] d = 5 -> "5" [] d = 6 -> "6" [] d = 7 -> "7"
    [] d = 8 -> "8" [] OTHER -> "9"

RECURSIVE Str(_)
\* "{}".format(n) for a non-negative integer: its decimal digits
Str(n) == IF n < 10 THEN <<Digit(n)>> ELSE Str(n \div 10) \o <<Digit(n % 10)>>

\* whether text part occurs in text whole as a contiguous run
Embeds(whole, part) ==
  \E i \in 1..(Len(whole) - Len(part) + 1) :
    SubSeq(whole, i, i + Len(part) - 1) = part

\* str.encode("utf-8") of one code point (a Unicode scalar value)
Utf8Char(c) ==
  IF c < 128 THEN <<c>>
  ELSE IF c < 2048 THEN <<192 + (c \div 64), 128 + (c % 64)>>
  ELSE IF c < 65536
    THEN <<224 + (c \div 4096), 128 + ((c \div 64) % 64), 128 + (c % 64)>>
  ELSE <<240 + (c \div 262144), 128 + ((c \div 4096) % 64),
         128 + ((c \div 64) % 64), 128 + (c % 64)>>

RECURSIVE Utf8(_)
\* info_html.encode("utf-8")
Utf8(s) == IF s = <<>> THEN <<>> ELSE Utf8Char(Head(s)) \o Utf8(Tail(s))

(* --------------------------- shell quoting ---------------------------- *)

\* the characters pipes.quote leaves alone: [\w@%+=:,./-]
SafeChars ==
  {"a", "b", "c", "f", "h", "i", "m", "p", "s", "t", "w", "3",
   "_", "@", "%", "+", "=", ":", ",", ".", "/", "-"}

RECURSIVE EscapeQuotes(_)
\* s.replace("'", "'\"'\"'")
EscapeQuotes(s) ==
  IF s = <<>> THEN <<>>
  ELSE (IF Head(s) = "'" THEN <<"'", "\"", "'", "\"", "'">> ELSE <<Head(s)>>)
       \o EscapeQuotes(Tail(s))

\* pipes.quote(s)
Quote(s) ==
  IF s = <<>> THEN <<"'", "'">>
  ELSE IF \A i \in 1..Len(s) : s[i] \in SafeChars THEN s
  ELSE <<"'">> \o EscapeQuotes(s) \o <<"'">>

RECURSIVE ShellWords(_, _, _, _)
\* How /bin/sh splits a command line into words: blanks separate words
\* outside quotes, '...' and "..." group characters literally.
\* mode is "plain", "single" or "double"; cur is the word being read
\* (<<>> when none has started); inword tells whether a word has started.
ShellWords(s, mode, cur, inword) ==
  IF s = <<>> THEN (IF inword THEN <<cur>> ELSE <<>>)
  ELSE LET c == Head(s)
           r == Tail(s)
       IN  IF mode = "single"
             THEN (IF c = "'" THEN ShellWords(r, "plain", cur, TRUE)
                   ELSE ShellWords(r, "single", Append(cur, c), TRUE))
           ELSE IF mode = "double"
             THEN (IF c = "\"" THEN ShellWords(r, "plain", cur, TRUE)
                   ELSE ShellWords(r, "double", Append(cur, c), TRUE))
           ELSE IF c = "'" THEN ShellWords(r, "single", cur, TRUE)
           ELSE IF c = "\"" THEN ShellWords(r, "double", cur, TRUE)
           ELSE IF c = " "
             THEN (IF inword THEN <<cur>> ELSE <<>>)
                  \o ShellWords(r, "plain", <<>>, FALSE)
           ELSE ShellWords(r, "plain", Append(cur, c), TRUE)

\* the argument vector the shell hands to the program os.system starts
Argv(cmd) == ShellWords(cmd, "plain", <<>>, FALSE)

\* os.system's return value for a command that exits with the given code
WaitStatus(code) == code * 256

(* ----------------------------- exceptions ----------------------------- *)

\* the result of a call that has not finished
NoResult == [kind |-> "none", exc |-> "", internal |-> <<>>, display |-> <<>>]

\* the result of a call that returned normally
Returned == [kind |-> "ok", exc |-> "", internal |-> <<>>, display |-> <<>>]

\* an exception of class exc leaving the call; str(e) is internal; only a
\* BackendException has a display_message
Raised(exc, internal, display) ==
  [kind |-> "raised", exc |-> exc, internal |-> internal, display |-> display]

\* a constructor that takes its two messages in the other order
BackendExceptionSwapped(internal, display) ==
  Raised("BackendException", display, internal)

\* BackendException(internal_message, display_message)
BackendException(internal, display) ==
  Raised("BackendException", internal, display)

Display == <<"Sorry, we weren't able to save your file.">>

\* str(e) of the OSError that open(), write() or os.remove() raises when
\* the operating system refuses the operation
StrError(op) ==
  IF op = "open" THEN <<"[Errno 13] Permission denied">>
  ELSE IF op = "write" THEN <<"[Errno 28] No space left on device">>
  ELSE <<"[Errno 2] No such file or directory">>

\* the OSError of a refused operation
OSError(op) == Raised("OSError", StrError(op), <<>>)

\* d[key] on a dict without that key
KeyError(key) == Raised("KeyError", <<"'", key, "'">>, <<>>)

\* the names the module binds (imports, classes, functions, globals)
ModuleNames ==
  {"os", "pipes", "requests", "json", "get_human_size", "settings",
   "FileBackend", "S3CommandLineBackend", "KloudlessBackend", "DebugBackend",
   "BackendException", "backends", "get_backend"}

\* the Python 3 builtins an except clause could name
Builtins ==
  {"Exception", "BaseException", "OSError", "IOError", "EnvironmentError",
   "KeyError", "NameError", "ValueError"}

\* the classes a handler for I/O errors catches
IOErrorClasses == {"OSError", "IOError", "EnvironmentError"}

(* --------------------------- configuration ---------------------------- *)

\* text literals of the configurations
DirF == <<"/", "f", "/">>
DirI == <<"/", "i", "/">>
DirT == <<"/", "t", "/">>
DirTm == <<"/", "t", " ", "m", "/">>
ExtH == <<".", "h">>
S3F == <<"s", "3", ":", "/", "f", "/">>
S3I == <<"s", "3", ":", "/", "i", "/">>

CfgFile ==
  [name |-> "file",
   options |-> [file_path |-> DirF \o <<Field>>,
                info_path |-> DirI \o <<Field>> \o ExtH]]

CfgS3 ==
  [name |-> "s3cli",
   options |-> [tmp_path |-> DirT \o <<Field>>,
                file_name |-> <<Field>>,
                info_name |-> <<Field>> \o ExtH,
                file_s3path |-> S3F \o <<Field>>,
                info_s3path |-> S3I \o <<Field>> \o ExtH]]

CfgS3Prefixed ==
  [name |-> "s3cli",
   options |-> [tmp_path |-> DirTm \o <<Field>>,
                file_name |-> <<"f", "-", Field>>,
                info_name |-> <<"i", "-", Field>>,
                file_s3path |-> S3F \o <<Field>>,
                info_s3path |-> S3I \o <<Field>> \o ExtH]]

CfgKloudless ==
  [name |-> "kloudless",
   options |-> [account_id |-> <<"7">>,
                account_key |-> <<"k">>,
                file_name |-> <<Field>>,
                info_name |-> <<Field>> \o ExtH,
                file_parent_id |-> <<"p", "f">>,
                info_parent_id |-> <<"p", "i">>]]

\* a kloudless configuration without the key info_parent_id
CfgKloudlessNoInfoParent ==
  [name |-> "kloudless",
   options |-> [account_id |-> <<"7">>,
                account_key |-> <<"k">>,
                file_name |-> <<Field>>,
                info_name |-> <<Field>> \o ExtH,
                file_parent_id |-> <<"p", "f">>]]

CfgDebug == [name |-> "debug", options |-> [verbose |-> <<"1">>]]

CfgUnknown ==
  [name |-> "ftp",
   options |-> [file_path |-> DirF \o <<Field>>,
                info_path |-> DirI \o <<Field>> \o ExtH]]

\* the values settings.STORAGE_BACKEND takes in the model
Configs ==
  {CfgFile, CfgS3, CfgS3Prefixed, CfgKloudless, CfgKloudlessNoInfoParent,
   CfgDebug, CfgUnknown}

\* the module-level dict backends: configured name -> backend class
backends ==
  [file |-> "FileBackend",
   s3cli |-> "S3CommandLineBackend",
   kloudless |-> "KloudlessBackend",
   debug |-> "DebugBackend"]

\* no backend instance
NoBackend == [class |-> "", options |-> <<>>]

(* ------------------------------ uploads ------------------------------- *)

NameA == <<"a">>
NameAH == <<"a", ".", "h">>

\* the stored_file arguments of the model: name, the chunks that
\* file.chunks() yields, file.size, and info_html as code points
StoredFiles ==
  {[name |-> NameA, chunks |-> <<<<104, 105>>, <<33>>>>, size |-> 3,
    info_html |-> <<60, 233, 8364>>],
   [name |-> NameA, chunks |-> <<<<7>>>>, size |-> 1, info_html |-> <<60>>],
   [name |-> NameAH, chunks |-> <<>>, size |-> 0, info_html |-> <<62>>]}

NoFile == [name |-> <<>>, chunks |-> <<>>, size |-> 0, info_html |-> <<>>]

\* the artifacts of an upload, in the order of the source's files tuples
\* the tuple files with the info page first
ArtifactsInfoFirst == <<"info", "file">>

Artifacts == <<"file", "info">>

(* ------------------------------- state -------------------------------- *)

VARIABLES
  settings,   \* settings.STORAGE_BACKEND
  backend,    \* the instance the last successful get_backend() returned
  made,       \* every backend instance constructed so far, in order
  getres,     \* the result of every get_backend() call so far, in order
  pc,         \* pc[c]: where store call c stands
  sf,         \* sf[c]: the stored_file argument of call c
  loc,        \* loc[c]: the local variables of call c
  result,     \* result[c]: how call c ended
  trace,      \* trace[c]: the I/O operations call c has performed, in order
  fs,         \* the local file system: path -> [ino, data]
  nextIno,    \* the next unused inode number
  s3objects,  \* the S3 store: remote path -> data
  kfiles      \* the files created through the Kloudless API

vars ==
  <<settings, backend, made, getres, pc, sf, loc, result, trace, fs, nextIno,
    s3objects, kfiles>>

\* the locals of a store call before it has assigned any
NoLocals ==
  [i |-> 1, name |-> <<>>, path |-> <<>>, info_path |-> <<>>, cmd |-> <<>>,
   k |-> 1, ino |-> 0, pos |-> 0]

\* one I/O operation of a store call: op is "open", "write", "close",
\* "system", "remove" or "post"; art the artifact it was made for; arg the
\* path, command line or remote name; status is 0 or 1 for a file
\* operation that succeeded or failed, the value of os.system, or the HTTP
\* status code
Ev(op, art, arg, status) ==
  [op |-> op, art |-> art, arg |-> arg, status |-> status]

Init ==
  /\ settings \in Configs
  /\ backend = NoBackend
  /\ made = <<>>
  /\ getres = <<>>
  /\ pc = [c \in Calls |-> "idle"]
  /\ sf = [c \in Calls |-> NoFile]
  /\ loc = [c \in Calls |-> NoLocals]
  /\ result = [c \in Calls |-> NoResult]
  /\ trace = [c \in Calls |-> <<>>]
  /\ fs = <<>>
  /\ nextIno = 1
  /\ s3objects = <<>>
  /\ kfiles = {}

(* ---------------------------- file system ----------------------------- *)

\* an open that creates the file when it is missing and keeps the content
\* of an existing one
OpenNoTrunc(files, path, ino) ==
  IF path \in DOMAIN files THEN files
  ELSE (path :> [ino |-> ino, data |-> <<>>]) @@ files

\* open(path, "wb+") when it succeeds: an existing file is truncated and
\* keeps its inode, a missing one is created with inode ino
OpenTrunc(files, path, ino) ==
  IF path \in DOMAIN files
    THEN [files EXCEPT ![path] = [ino |-> files[path].ino, data |-> <<>>]]
    ELSE (path :> [ino |-> ino, data |-> <<>>]) @@ files

\* the inode a successful open(path, "wb+") returns a handle on
OpenedIno(files, path, ino) ==
  IF path \in DOMAIN files THEN files[path].ino ELSE ino

\* a write that ignores the offset and replaces the content
WriteAtOverwrites(data, pos, bytes) == bytes

\* the content of a file after bytes are written at offset pos; a gap
\* between the end of the file and pos reads as zero bytes
WriteAt(data, pos, bytes) ==
  [j \in 1..(IF Len(data) > pos + Len(bytes) THEN Len(data)
             ELSE pos + Len(bytes)) |->
     IF j > pos /\ j <= pos + Len(bytes) THEN bytes[j - pos]
     ELSE IF j <= Len(data) THEN data[j] ELSE 0]

\* dest.write(bytes) through a handle on inode ino at offset pos; when the
\* path no longer names that inode the bytes go to an unlinked file
Write(files, path, ino, pos, bytes) ==
  IF path \in DOMAIN files /\ files[path].ino = ino
    THEN [files EXCEPT ![path].data = WriteAt(@, pos, bytes)]
    ELSE files

\* a removal that leaves the file in place
RemoveNothing(files, path) == files

\* os.remove(path) when it succeeds
Remove(files, path) == [q \in (DOMAIN files) \ {path} |-> files[q]]

(* --------------------------- get_backend ------------------------------ *)

\* a lookup that falls back to another class for two of the names
ConstructSwapped(name, options) ==
  [class |-> IF name = "s3cli" THEN backends["kloudless"]
             ELSE IF name = "kloudless" THEN backends["s3cli"]
             ELSE backends[name],
   options |-> options]

\* a constructor that fills in a key the options lack
ConstructDefaults(name, options) ==
  [class |-> backends[name],
   options |-> IF "info_parent_id" \in DOMAIN options THEN options
               ELSE [info_parent_id |-> <<>>] @@ options]

\* backends[name](options): the instance __init__ builds
Construct(name, options) == [class |-> backends[name], options |-> options]

\* get_backend()
GetBackend ==
  /\ Len(getres) < MaxGetCalls
  /\ \A c \in Calls : pc[c] = "idle"
  /\ LET conf == settings
         name == conf.name
         options == conf.options
     IN  IF name \in DOMAIN backends
           THEN /\ made' = Append(made, Construct(name, options))
                /\ backend' = Construct(name, options)
                /\ getres' = Append(getres, Returned)
           ELSE /\ getres' = Append(getres, KeyError(name))
                /\ UNCHANGED <<made, backend>>
  /\ UNCHANGED <<settings, pc, sf, loc, result, trace, fs, nextIno,
                 s3objects, kfiles>>

(* ------------------------- calling store() ---------------------------- *)

\* the first step of backend.store for each class
Entry(class) ==
  CASE class = "FileBackend" -> "file_resolve"
    [] class = "S3CommandLineBackend" -> "s3_resolve"
    [] class = "KloudlessBackend" -> "kl_upload"
    [] OTHER -> "debug_store"

Finished(c) == pc[c] \in {"done", "raised"}

\* the caller invokes backend.store(stored_file); calls are made one after
\* the other
Begin(c) ==
  /\ pc[c] = "idle"
  /\ backend # NoBackend
  /\ \A d \in Calls : d < c => Finished(d)
  /\ \E f \in StoredFiles : sf' = [sf EXCEPT ![c] = f]
  /\ pc' = [pc EXCEPT ![c] = Entry(backend.class)]
  /\ UNCHANGED <<settings, backend, made, getres, loc, result, trace, fs,
                 nextIno, s3objects, kfiles>>

\* the caller invokes backend.store(stored_file) from a request handler
\* that runs concurrently with the other calls
BeginConcurrent(c) ==
  /\ pc[c] = "idle"
  /\ backend # NoBackend
  /\ \A d \in Calls : d < c => pc[d] # "idle"
  /\ \E f \in StoredFiles : sf' = [sf EXCEPT ![c] = f]
  /\ pc' = [pc EXCEPT ![c] = Entry(backend.class)]
  /\ UNCHANGED <<settings, backend, made, getres, loc, result, trace, fs,
                 nextIno, s3objects, kfiles>>

\* call c ends with result res (returns, or an exception leaves it)
Finish(c, res) ==
  /\ result' = [result EXCEPT ![c] = res]
  /\ pc' = [pc EXCEPT ![c] = IF res.kind = "ok" THEN "done" ELSE "raised"]

\* call c appends operations to its trace
Log(c, evs) == trace' = [trace EXCEPT ![c] = @ \o evs]

(* ---------------------------- FileBackend ----------------------------- *)

\* the except clause of FileBackend.store for an exception e raised in the
\* try block: Python evaluates the clause's expression, the name
\* IOException, before it matches; an unbound name raises NameError
FileExcept(e) ==
  IF "IOException" \notin ModuleNames \cup Builtins
    THEN Raised("NameError", <<"name 'IOException' is not defined">>, <<>>)
  ELSE IF e.exc \in IOErrorClasses
    THEN BackendException(<<"Received IOException: ">> \o e.internal, Display)
  ELSE e

\* the statements in the other order: the info page first, then the file
FileNextInfoFirst(stage) ==
  CASE stage = "file_resolve" -> "info_open"
    [] stage = "info_open" -> "info_write"
    [] stage = "info_write" -> "file_open"
    [] stage = "file_open" -> "file_write"
    [] OTHER -> "done"

\* the order of the statements of FileBackend.store: the stage that follows
\* each stage when it completes without an exception
FileNext(stage) ==
  CASE stage = "file_resolve" -> "file_open"
    [] stage = "file_open" -> "file_write"
    [] stage = "file_write" -> "info_open"
    [] stage = "info_open" -> "info_write"
    [] OTHER -> "done"

\* call c goes on to stage next; "done" is the return of store
Advance(c, next) ==
  IF next = "done"
    THEN Finish(c, Returned)
    ELSE pc' = [pc EXCEPT ![c] = next] /\ UNCHANGED result

\* both destinations resolved from the file_path template
FilePathsSame(opt, name) ==
  [path |-> Format(opt.file_path, name),
   info_path |-> Format(opt.file_path, name)]

\* path = self.options["file_path"].format(name=stored_file.name)
\* info_path = self.options["info_path"].format(name=stored_file.name)
FilePaths(opt, name) ==
  [path |-> Format(opt.file_path, name),
   info_path |-> Format(opt.info_path, name)]

\* the two assignments that resolve the destinations
FileResolve(c) ==
  /\ pc[c] = "file_resolve"
  /\ LET opt == backend.options
     IN  IF "file_path" \notin DOMAIN opt
           THEN Finish(c, KeyError("file_path")) /\ UNCHANGED loc
         ELSE IF "info_path" \notin DOMAIN opt
           THEN Finish(c, KeyError("info_path")) /\ UNCHANGED loc
         ELSE /\ loc' = [loc EXCEPT
                   ![c].path = FilePaths(opt, sf[c].name).path,
                   ![c].info_path = FilePaths(opt, sf[c].name).info_path]
              /\ Advance(c, FileNext("file_resolve"))
  /\ UNCHANGED <<settings, backend, made, getres, sf, trace, fs, nextIno,
                 s3objects, kfiles>>

\* with open(path, "wb+") as dest
FileOpenFile(c) ==
  /\ pc[c] = "file_open"
  /\ \E ok \in BOOLEAN :
       IF ok
         THEN /\ fs' = OpenTrunc(fs, loc[c].path, nextIno)
              /\ nextIno' = nextIno + 1
              /\ loc' = [loc EXCEPT
                   ![c].ino = OpenedIno(fs, loc[c].path, nextIno),
                   ![c].pos = 0, ![c].k = 1]
              /\ Advance(c, FileNext("file_open"))
              /\ Log(c, <<Ev("open", "file", loc[c].path, 0)>>)
         ELSE /\ Finish(c, FileExcept(OSError("open")))
              /\ Log(c, <<Ev("open", "file", loc[c].path, 1)>>)
              /\ UNCHANGED <<fs, nextIno, loc>>
  /\ UNCHANGED <<settings, backend, made, getres, sf, s3objects, kfiles>>

\* for chunk in stored_file.file.chunks(): dest.write(chunk)
FileWriteChunk(c) ==
  /\ pc[c] = "file_write"
  /\ loc[c].k <= Len(sf[c].chunks)
  /\ LET chunk == sf[c].chunks[loc[c].k]
     IN  \E ok \in BOOLEAN :
           IF ok
             THEN /\ fs' = Write(fs, loc[c].path, loc[c].ino, loc[c].pos, chunk)
                  /\ loc' = [loc EXCEPT ![c].pos = @ + Len(chunk),
                                        ![c].k = @ + 1]
                  /\ Log(c, <<Ev("write", "file", loc[c].path, 0)>>)
                  /\ UNCHANGED <<pc, result>>
             ELSE /\ Finish(c, FileExcept(OSError("write")))
                  /\ Log(c, <<Ev("write", "file", loc[c].path, 1),
                              Ev("close", "file", loc[c].path, 0)>>)
                  /\ UNCHANGED <<fs, loc>>
  /\ UNCHANGED <<settings, backend, made, getres, sf, nextIno, s3objects,
                 kfiles>>

\* the chunks are exhausted and the with block closes dest
FileCloseFile(c) ==
  /\ pc[c] = "file_write"
  /\ loc[c].k > Len(sf[c].chunks)
  /\ Advance(c, FileNext("file_write"))
  /\ Log(c, <<Ev("close", "file", loc[c].path, 0)>>)
  /\ UNCHANGED <<settings, backend, made, getres, sf, loc, fs, nextIno,
                 s3objects, kfiles>>

\* with open(info_path, "wb+") as dest
FileOpenInfo(c) ==
  /\ pc[c] = "info_open"
  /\ \E ok \in BOOLEAN :
       IF ok
         THEN /\ fs' = OpenTrunc(fs, loc[c].info_path, nextIno)
              /\ nextIno' = nextIno + 1
              /\ loc' = [loc EXCEPT
                   ![c].ino = OpenedIno(fs, loc[c].info_path, nextIno),
                   ![c].pos = 0]
              /\ Advance(c, FileNext("info_open"))
              /\ Log(c, <<Ev("open", "info", loc[c].info_path, 0)>>)
         ELSE /\ Finish(c, FileExcept(OSError("open")))
              /\ Log(c, <<Ev("open", "info", loc[c].info_path, 1)>>)
              /\ UNCHANGED <<fs, nextIno, loc>>
  /\ UNCHANGED <<settings, backend, made, getres, sf, s3objects, kfiles>>

\* dest.write(stored_file.info_html.encode("utf-8")); the with block closes
\* dest
FileWriteInfo(c) ==
  /\ pc[c] = "info_write"
  /\ LET bytes == Utf8(sf[c].info_html)
     IN  \E ok \in BOOLEAN :
           IF ok
             THEN /\ fs' = Write(fs, loc[c].info_path, loc[c].ino,
                                 loc[c].pos, bytes)
                  /\ loc' = [loc EXCEPT ![c].pos = @ + Len(bytes)]
                  /\ Advance(c, FileNext("info_write"))
                  /\ Log(c, <<Ev("write", "info", loc[c].info_path, 0),
                              Ev("close", "info", loc[c].info_path, 0)>>)
             ELSE /\ Finish(c, FileExcept(OSError("write")))
                  /\ Log(c, <<Ev("write", "info", loc[c].info_path, 1),
                              Ev("close", "info", loc[c].info_path, 0)>>)
                  /\ UNCHANGED <<fs, loc>>
  /\ UNCHANGED <<settings, backend, made, getres, sf, nextIno, s3objects,
                 kfiles>>

(* ----------------------- S3CommandLineBackend ------------------------- *)

\* one name template for both artifacts
NameKeySame(art) == "file_name"

\* file["name"] + "_name"
NameKey(art) == IF art = "file" THEN "file_name" ELSE "info_name"

\* file["name"] + "_s3path"
S3PathKey(art) == IF art = "file" THEN "file_s3path" ELSE "info_s3path"

\* what file["write"](dest) writes, one element per dest.write call:
\* write_file writes every chunk, write_info the encoded info page
Pieces(art, f) == IF art = "file" THEN f.chunks ELSE <<Utf8(f.info_html)>>

\* "aws s3 cp {} {}".format(pipes.quote(path), pipes.quote(s3))
AwsCmd(path, s3) ==
  <<"a", "w", "s", " ", "s", "3", " ", "c", "p", " ">>
    \o Quote(path) \o <<" ">> \o Quote(s3)

\* the exit codes of the aws command in the model
ExitCodes == {0, 1}

\* the internal message of a failed command
S3Internal(status, cmd) ==
  <<"Received ">> \o Str(status) \o <<" status code for command ">> \o cmd

\* name = ...format(name=stored_file.name); path = tmp_path.format(name=name)
S3Resolve(c) ==
  /\ pc[c] = "s3_resolve"
  /\ LET opt == backend.options
         art == Artifacts[loc[c].i]
     IN  IF NameKey(art) \notin DOMAIN opt
           THEN Finish(c, KeyError(NameKey(art))) /\ UNCHANGED loc
         ELSE IF "tmp_path" \notin DOMAIN opt
           THEN Finish(c, KeyError("tmp_path")) /\ UNCHANGED loc
         ELSE LET name == Format(opt[NameKey(art)], sf[c].name)
              IN  /\ loc' = [loc EXCEPT
                       ![c].name = name,
                       ![c].path = Format(opt.tmp_path, name)]
                  /\ pc' = [pc EXCEPT ![c] = "s3_open"]
                  /\ UNCHANGED result
  /\ UNCHANGED <<settings, backend, made, getres, sf, trace, fs, nextIno,
                 s3objects, kfiles>>

\* with open(path, "wb+") as dest
S3Open(c) ==
  /\ pc[c] = "s3_open"
  /\ LET art == Artifacts[loc[c].i]
     IN  \E ok \in BOOLEAN :
           IF ok
             THEN /\ fs' = OpenTrunc(fs, loc[c].path, nextIno)
                  /\ nextIno' = nextIno + 1
                  /\ loc' = [loc EXCEPT
                       ![c].ino = OpenedIno(fs, loc[c].path, nextIno),
                       ![c].pos = 0, ![c].k = 1]
                  /\ pc' = [pc EXCEPT ![c] = "s3_write"]
                  /\ Log(c, <<Ev("open", art, loc[c].path, 0)>>)
                  /\ UNCHANGED result
             ELSE /\ Finish(c, OSError("open"))
                  /\ Log(c, <<Ev("open", art, loc[c].path, 1)>>)
                  /\ UNCHANGED <<fs, nextIno, loc>>
  /\ UNCHANGED <<settings, backend, made, getres, sf, s3objects, kfiles>>

\* file["write"](dest): one dest.write call
S3Write(c) ==
  /\ pc[c] = "s3_write"
  /\ LET art == Artifacts[loc[c].i]
         pieces == Pieces(art, sf[c])
     IN  /\ loc[c].k <= Len(pieces)
         /\ \E ok \in BOOLEAN :
              IF ok
                THEN /\ fs' = Write(fs, loc[c].path, loc[c].ino, loc[c].pos,
                                    pieces[loc[c].k])
                     /\ loc' = [loc EXCEPT
                          ![c].pos = @ + Len(pieces[loc[c].k]),
                          ![c].k = @ + 1]
                     /\ Log(c, <<Ev("write", art, loc[c].path, 0)>>)
                     /\ UNCHANGED <<pc, result>>
                ELSE /\ Finish(c, OSError("write"))
                     /\ Log(c, <<Ev("write", art, loc[c].path, 1),
                                 Ev("close", art, loc[c].path, 0)>>)
                     /\ UNCHANGED <<fs, loc>>
  /\ UNCHANGED <<settings, backend, made, getres, sf, nextIno, s3objects,
                 kfiles>>

\* file["write"] has returned and the with block closes dest
S3Close(c) ==
  /\ pc[c] = "s3_write"
  /\ loc[c].k > Len(Pieces(Artifacts[loc[c].i], sf[c]))
  /\ pc' = [pc EXCEPT ![c] = "s3_system"]
  /\ Log(c, <<Ev("close", Artifacts[loc[c].i], loc[c].path, 0)>>)
  /\ UNCHANGED <<settings, backend, made, getres, sf, loc, result, fs,
                 nextIno, s3objects, kfiles>>

\* s3 = ...format(name=stored_file.name); cmd = ...; status = os.system(cmd);
\* if status != 0: raise BackendException(...)
\* The shell runs aws s3 cp <argv[4]> <argv[5]>; aws exits 0 only after it
\* has copied the local file, which must exist, to the remote path.
S3System(c) ==
  /\ pc[c] = "s3_system"
  /\ LET opt == backend.options
         art == Artifacts[loc[c].i]
     IN  IF S3PathKey(art) \notin DOMAIN opt
           THEN /\ Finish(c, KeyError(S3PathKey(art)))
                /\ UNCHANGED <<loc, trace, s3objects>>
         ELSE LET s3 == Format(opt[S3PathKey(art)], sf[c].name)
                  cmd == AwsCmd(loc[c].path, s3)
                  argv == Argv(cmd)
              IN  \E code \in ExitCodes :
                    LET status == WaitStatus(code)
                    IN  /\ code = 0 => Len(argv) = 5 /\ argv[4] \in DOMAIN fs
                        /\ loc' = [loc EXCEPT ![c].cmd = cmd]
                        /\ Log(c, <<Ev("system", art, cmd, status)>>)
                        /\ s3objects' =
                             IF code = 0
                               THEN (argv[5] :> fs[argv[4]].data) @@ s3objects
                               ELSE s3objects
                        /\ IF status # 0
                             THEN Finish(c, BackendException(
                                              S3Internal(status, cmd), Display))
                             ELSE /\ pc' = [pc EXCEPT ![c] = "s3_remove"]
                                  /\ UNCHANGED result
  /\ UNCHANGED <<settings, backend, made, getres, sf, fs, nextIno, kfiles>>

\* os.remove(path); then the next artifact, or store returns
S3Remove(c) ==
  /\ pc[c] = "s3_remove"
  /\ LET art == Artifacts[loc[c].i]
     IN  IF loc[c].path \in DOMAIN fs
           THEN /\ fs' = Remove(fs, loc[c].path)
                /\ Log(c, <<Ev("remove", art, loc[c].path, 0)>>)
                /\ IF loc[c].i < Len(Artifacts)
                     THEN /\ loc' = [loc EXCEPT ![c].i = @ + 1]
                          /\ pc' = [pc EXCEPT ![c] = "s3_resolve"]
                          /\ UNCHANGED result
                     ELSE Finish(c, Returned) /\ UNCHANGED loc
           ELSE /\ Finish(c, OSError("remove"))
                /\ Log(c, <<Ev("remove", art, loc[c].path, 1)>>)
                /\ UNCHANGED <<fs, loc>>
  /\ UNCHANGED <<settings, backend, made, getres, sf, nextIno, s3objects,
                 kfiles>>

(* -------------------------- KloudlessBackend -------------------------- *)

\* file["name"] + "_parent_id"
ParentKey(art) == IF art = "file" THEN "file_parent_id" ELSE "info_parent_id"

\* the status codes the Kloudless API answers with in the model
HttpStatuses == {200, 201, 500}

\* the bytes of the file part of the request: the upload's content, or
\* the info page sent as ("info.html", stored_file.info_html)
FilePart(art, f) ==
  IF art = "file" THEN Concat(f.chunks) ELSE Utf8(f.info_html)

\* an internal message without the status code
KloudlessInternalNoStatus(status) == <<"Received unexpected status code">>

\* the internal message of a refused upload
KloudlessInternal(status) ==
  <<"Received ">> \o Str(status) \o <<" status code">>

\* an upload that accepts every 2xx status
UploadAccepts2xx(status) ==
  IF status < 200 \/ status > 299
    THEN BackendException(KloudlessInternal(status), Display)
    ELSE Returned

\* an upload that never looks at the status code
UploadIgnoresStatus(status) == Returned

\* upload(name, parent_id, file) after the request has been answered with
\* status: the result it raises, or Returned when it returns
Upload(status) ==
  IF status # 201
    THEN BackendException(KloudlessInternal(status), Display)
    ELSE Returned

\* one iteration of the loop over files: name, parent_id, upload(...);
\* after the last artifact store returns.  Every request is answered with
\* a status code, and the API creates the file exactly when it answers 201.
KloudlessUpload(c) ==
  /\ pc[c] = "kl_upload"
  /\ LET opt == backend.options
         art == Artifacts[loc[c].i]
         missing == {k \in {NameKey(art), ParentKey(art), "account_key",
                            "account_id"} : k \notin DOMAIN opt}
     IN  IF missing # {}
           THEN /\ Finish(c, KeyError(
                      IF NameKey(art) \in missing THEN NameKey(art)
                      ELSE IF ParentKey(art) \in missing THEN ParentKey(art)
                      ELSE IF "account_key" \in missing THEN "account_key"
                      ELSE "account_id"))
                /\ UNCHANGED <<loc, trace, kfiles>>
         ELSE LET name == Format(opt[NameKey(art)], sf[c].name)
                  parent_id == opt[ParentKey(art)]
              IN  \E status \in HttpStatuses :
                    /\ Log(c, <<Ev("post", art, name, status)>>)
                    /\ kfiles' =
                         IF status = 201
                           THEN kfiles \cup
                                  {[account |-> opt.account_id, name |-> name,
                                    parent_id |-> parent_id,
                                    data |-> FilePart(art, sf[c])]}
                           ELSE kfiles
                    /\ IF Upload(status).kind # "ok"
                         THEN Finish(c, Upload(status)) /\ UNCHANGED loc
                       ELSE IF loc[c].i < Len(Artifacts)
                         THEN /\ loc' = [loc EXCEPT ![c].i = @ + 1,
                                                    ![c].name = name]
                              /\ UNCHANGED <<pc, result>>
                       ELSE Finish(c, Returned) /\ UNCHANGED loc
  /\ UNCHANGED <<settings, backend, made, getres, sf, fs, nextIno, s3objects>>

(* ---------------------------- DebugBackend ---------------------------- *)

\* fluffy.utils.get_human_size(size): the size as a text for people; it is
\* total on the non-negative sizes, zero included
GetHumanSize(size) == Str(size) \o <<" bytes">>

\* a store that divides by the size of the upload
DebugStoreFailsOnEmpty(c) ==
  /\ pc[c] = "debug_store"
  /\ Finish(c, IF sf[c].size = 0
                 THEN Raised("ZeroDivisionError", <<"division by zero">>, <<>>)
                 ELSE Returned)
  /\ UNCHANGED <<settings, backend, made, getres, sf, loc, trace, fs,
                 nextIno, s3objects, kfiles>>

\* DebugBackend.store: prints the name and the size, stores nothing
DebugStore(c) ==
  /\ pc[c] = "debug_store"
  /\ Log(c, <<Ev("print", "", <<"Storing file:">>, 0),
              Ev("print", "", <<"\tName: ">> \o sf[c].name, 0),
              Ev("print", "", <<"\tSize: ">> \o GetHumanSize(sf[c].size), 0)>>)
  /\ Finish(c, Returned)
  /\ UNCHANGED <<settings, backend, made, getres, sf, loc, fs,
                 nextIno, s3objects, kfiles>>

(* --------------------------- specifications --------------------------- *)

\* one step of store call c
Step(c) ==
  \/ FileResolve(c)
  \/ FileOpenFile(c)
  \/ FileWriteChunk(c)
  \/ FileCloseFile(c)
  \/ FileOpenInfo(c)
  \/ FileWriteInfo(c)
  \/ S3Resolve(c)
  \/ S3Open(c)
  \/ S3Write(c)
  \/ S3Close(c)
  \/ S3System(c)
  \/ S3Remove(c)
  \/ KloudlessUpload(c)
  \/ DebugStore(c)

Next ==
  \/ GetBackend
  \/ \E c \in Calls : Begin(c)
  \/ \E c \in Calls : Step(c)

\* store calls made one after the other
Spec == Init /\ [][Next]_vars

NextConc ==
  \/ GetBackend
  \/ \E c \in Calls : BeginConcurrent(c)
  \/ \E c \in Calls : Step(c)

\* store calls made by concurrent request handlers
SpecConc == Init /\ [][NextConc]_vars

(* ------------------------------- claims ------------------------------- *)

\* call c is running: it has begun and has not ended
Running(c) == pc[c] \notin {"idle", "done", "raised"}

\* call c has ended and no later call has begun: the state the caller of
\* c sees when store returns or raises
JustEnded(c) == Finished(c) /\ \A d \in Calls : d > c => pc[d] = "idle"

\* call c is a store call of the given backend class
CallOf(c, class) == pc[c] # "idle" /\ backend.class = class

\* the operations of call c that the operating system refused
FailedIO(c) ==
  {i \in DOMAIN trace[c] :
     trace[c][i].op \in {"open", "write", "remove"} /\ trace[c][i].status = 1}

\* the result is a BackendException with the generic display message
IsBackendError(res) ==
  /\ res.kind = "raised"
  /\ res.exc = "BackendException"
  /\ res.display = <<"Sorry, we weren't able to save your file.">>

\* path holds exactly data on the local disk
Holds(path, data) == path \in DOMAIN fs /\ fs[path].data = data

\* C1: in FileBackend.store, an I/O failure while opening or writing either
\* destination reaches the caller as a BackendException with the generic
\* display message and an internal message that embeds the I/O error.
C1_IOFailureIsBackendError ==
  \A c \in Calls :
    CallOf(c, "FileBackend") =>
      \A i \in FailedIO(c) :
        /\ IsBackendError(result[c])
        /\ Embeds(result[c].internal, StrError(trace[c][i].op))

\* the artifacts of call c are both at the destinations its backend is
\* configured with (DebugBackend has no destination)
Persisted(c) ==
  LET opt == backend.options
      f == sf[c]
  IN  CASE backend.class = "FileBackend" ->
             /\ Holds(Format(opt.file_path, f.name), Concat(f.chunks))
             /\ Holds(Format(opt.info_path, f.name), Utf8(f.info_html))
        [] backend.class = "S3CommandLineBackend" ->
             /\ Format(opt.file_s3path, f.name) \in DOMAIN s3objects
             /\ s3objects[Format(opt.file_s3path, f.name)] = Concat(f.chunks)
             /\ Format(opt.info_s3path, f.name) \in DOMAIN s3objects
             /\ s3objects[Format(opt.info_s3path, f.name)] = Utf8(f.info_html)
        [] backend.class = "KloudlessBackend" ->
             /\ \E r \in kfiles :
                  /\ r.name = Format(opt.file_name, f.name)
                  /\ r.data = Concat(f.chunks)
             /\ \E r \in kfiles :
                  /\ r.name = Format(opt.info_name, f.name)
                  /\ r.data = Utf8(f.info_html)
        [] OTHER -> TRUE

\* C2: every store call of every backend either returns with both
\* artifacts persisted or raises a BackendException; options that lack a
\* key are a configuration error and not a failure of store.
C2_StoreAllOrBackendError ==
  \A c \in Calls :
    JustEnded(c) =>
      \/ result[c].kind = "ok" /\ Persisted(c)
      \/ result[c].kind = "raised" /\ result[c].exc = "BackendException"
      \/ result[c].kind = "raised" /\ result[c].exc = "KeyError"

\* no call after c has begun: the disk is as call c left it
Current(c) == \A d \in Calls : d > c => pc[d] = "idle"

\* the temp path call c had open for the operation at position i
TempPathAt(c, i) ==
  LET opens == {j \in 1..i : trace[c][j].op = "open"}
      last == CHOOSE j \in opens : \A k \in opens : k <= j
  IN  trace[c][last].arg

HoldsTemp(c) == pc[c] \in {"s3_write", "s3_system", "s3_remove"}

\* C4: two concurrent S3CommandLineBackend.store calls for uploads with
\* different names never have the same temp path in use.
C4_ConcurrentTempPathsDisjoint ==
  \A c, d \in Calls :
    /\ c # d
    /\ CallOf(c, "S3CommandLineBackend")
    /\ HoldsTemp(c)
    /\ HoldsTemp(d)
    /\ sf[c].name # sf[d].name
    => loc[c].path # loc[d].path

\* C5: after a FileBackend.store call that returned, the path from
\* file_path holds the chunks of the file in order and the path from
\* info_path holds the UTF-8 bytes of info_html.
C5_LocalDiskRoundTrip ==
  \A c \in Calls :
    CallOf(c, "FileBackend") /\ JustEnded(c) /\ result[c].kind = "ok" =>
      /\ Holds(Format(backend.options.file_path, sf[c].name),
               Concat(sf[c].chunks))
      /\ Holds(Format(backend.options.info_path, sf[c].name),
               Utf8(sf[c].info_html))
      /\ sf[c].info_html = <<60, 233, 8364>> =>
           /\ Holds(<<"/", "f", "/", "a">>, <<104, 105, 33>>)
           /\ Holds(<<"/", "i", "/", "a", ".", "h">>,
                    <<60, 195, 169, 226, 130, 172>>)

\* a returned call that wrote two chunks and a multi-byte info page over
\* the files of an earlier call
C5_Witness ==
  \E c \in Calls :
    /\ c > 1
    /\ CallOf(c, "FileBackend")
    /\ JustEnded(c)
    /\ result[c].kind = "ok"
    /\ result[1].kind = "ok"
    /\ sf[1].name = sf[c].name
    /\ Len(sf[c].chunks) = 2
    /\ Len(Utf8(sf[c].info_html)) > Len(sf[c].info_html)

\* C6: FileBackend.store touches the info destination only after the file
\* has been opened, written completely and closed without a failure; after
\* a failed file operation nothing is done for the info page.
C6_FileBeforeInfo ==
  \A c \in Calls :
    CallOf(c, "FileBackend") =>
      \A i \in DOMAIN trace[c] :
        trace[c][i].art = "info" =>
          /\ \E j \in 1..(i - 1) :
               trace[c][j].op = "close" /\ trace[c][j].art = "file"
          /\ Cardinality({j \in 1..(i - 1) :
                            /\ trace[c][j].op = "write"
                            /\ trace[c][j].art = "file"
                            /\ trace[c][j].status = 0})
               = Len(sf[c].chunks)
          /\ \A j \in DOMAIN trace[c] :
               trace[c][j].art = "file" =>
                 j < i /\ trace[c][j].status = 0

\* one call failed while writing the file and did nothing for the info
\* page; the next call wrote the info page after the file
C6_Witness ==
  /\ CallOf(1, "FileBackend")
  /\ \E i \in FailedIO(1) : trace[1][i].op = "write" /\ trace[1][i].art = "file"
  /\ \A i \in DOMAIN trace[1] : trace[1][i].art # "info"
  /\ \E i \in DOMAIN trace[2] : trace[2][i].op = "write" /\ trace[2][i].art = "info"

\* C7: when the info page's write fails after the file was written,
\* FileBackend.store raises and the file stays at its destination with its
\* full content.
C7_NoRollback ==
  \A c \in Calls :
    /\ CallOf(c, "FileBackend")
    /\ JustEnded(c)
    /\ \E i \in FailedIO(c) : trace[c][i].art = "info"
    => /\ result[c].kind = "raised"
       /\ Holds(Format(backend.options.file_path, sf[c].name),
                Concat(sf[c].chunks))

\* a call that wrote a non-empty file and then failed to write the info page
C7_Witness ==
  \E c \in Calls :
    /\ CallOf(c, "FileBackend")
    /\ JustEnded(c)
    /\ \E i \in FailedIO(c) : trace[c][i].art = "info" /\ trace[c][i].op = "write"
    /\ sf[c].chunks # <<>>
    /\ pc[c] = "raised"

\* the requests call c has sent for the given artifact
Posts(c, art) ==
  {i \in DOMAIN trace[c] : trace[c][i].op = "post" /\ trace[c][i].art = art}

\* C8: KloudlessBackend.store sends the info page's request only after the
\* file's request was answered 201; after any other answer to the file's
\* request no request for the info page is sent.
C8_InfoRequestAfter201 ==
  \A c \in Calls :
    CallOf(c, "KloudlessBackend") =>
      /\ \A i \in Posts(c, "info") :
           \E j \in Posts(c, "file") : j < i /\ trace[c][j].status = 201
      /\ (\E j \in Posts(c, "file") : trace[c][j].status # 201)
           => Posts(c, "info") = {}

\* a call whose file request was answered 201 and that sent the info request
C8_Witness ==
  \E c \in Calls :
    /\ CallOf(c, "KloudlessBackend")
    /\ \E j \in Posts(c, "file") : trace[c][j].status = 201
    /\ Posts(c, "info") # {}

\* C9: KloudlessBackend.store returns exactly when both requests were
\* answered 201; any other status code on either request makes it raise a
\* BackendException with the generic display message and an internal
\* message that names the status code.
C9_SuccessIsExactly201 ==
  \A c \in Calls :
    CallOf(c, "KloudlessBackend") /\ Finished(c) =>
      /\ result[c].kind = "ok" <=>
           /\ \E i \in Posts(c, "file") : trace[c][i].status = 201
           /\ \E i \in Posts(c, "info") : trace[c][i].status = 201
           /\ \A i \in DOMAIN trace[c] : trace[c][i].status = 201
      /\ \A i \in DOMAIN trace[c] :
           trace[c][i].status # 201 =>
             /\ IsBackendError(result[c])
             /\ Embeds(result[c].internal, Str(trace[c][i].status))
             /\ trace[c][i].status = 200 =>
                  result[c].internal
                    = <<"Received ", "2", "0", "0", " status code">>

\* a call whose file request was answered 201 and whose info request was
\* answered 200
C9_Witness ==
  \E c \in Calls :
    /\ CallOf(c, "KloudlessBackend")
    /\ Finished(c)
    /\ \E i \in Posts(c, "file") : trace[c][i].status = 201
    /\ \E i \in Posts(c, "info") : trace[c][i].status = 200

\* C10: get_backend returns an instance of the class mapped to the
\* configured name; for any other name every call raises an error that is
\* not a BackendException and no backend is ever constructed.
C10_RegistryMapping ==
  LET name == settings.name
      known == {"file", "s3cli", "kloudless", "debug"}
      class == CASE name = "file" -> "FileBackend"
                 [] name = "s3cli" -> "S3CommandLineBackend"
                 [] name = "kloudless" -> "KloudlessBackend"
                 [] name = "debug" -> "DebugBackend"
                 [] OTHER -> ""
  IN  IF name \in known
        THEN /\ Len(made) = Len(getres)
             /\ \A i \in DOMAIN getres :
                  /\ getres[i].kind = "ok"
                  /\ made[i] = [class |-> class, options |-> settings.options]
             /\ getres # <<>> => backend = made[Len(made)]
        ELSE /\ made = <<>>
             /\ backend = NoBackend
             /\ \A i \in DOMAIN getres :
                  /\ getres[i].kind = "raised"
                  /\ getres[i].exc # "BackendException"

\* get_backend has been called twice with the unknown name ftp configured
C10_Witness ==
  /\ Len(getres) >= 2
  /\ settings.name = "ftp"
  /\ \A i \in DOMAIN getres : getres[i].exc = "KeyError"

\* the persistence actions in the trace of call c: opening or writing a
\* destination or temp file, running the copy command, sending a request
Persistence(c) ==
  {i \in DOMAIN trace[c] :
     trace[c][i].op \in {"open", "write", "system", "post"}}

\* the operation at position i of call c's trace failed
FailedAt(c, i) ==
  LET e == trace[c][i]
  IN  CASE e.op = "system" -> e.status # 0
        [] e.op = "post" -> e.status # 201
        [] OTHER -> e.status # 0

\* the number of operations op that call c made for artifact art
Count(c, op, art) ==
  Cardinality({i \in DOMAIN trace[c] :
                 trace[c][i].op = op /\ trace[c][i].art = art})

\* C11: no backend retries: in one store call every artifact's
\* destination is opened at most once, every piece of it written at most
\* once, its copy command run at most once and its request sent at most
\* once; a failed operation is followed by no further persistence action
\* and the call ends with it. (A call's trace is final once a later call
\* has begun, so the latest call is the one to look at in each state.)
C11_NoRetry ==
  \A c \in Calls :
    pc[c] # "idle" /\ Current(c) =>
      /\ \A art \in {"file", "info"} :
           /\ Count(c, "open", art) <= 1
           /\ Count(c, "write", art) <= Len(Pieces(art, sf[c]))
           /\ Count(c, "system", art) <= 1
           /\ Count(c, "post", art) <= 1
           /\ Count(c, "remove", art) <= 1
      /\ \A i \in DOMAIN trace[c] :
           FailedAt(c, i) =>
             /\ Finished(c)
             /\ result[c].kind = "raised"
             /\ \A j \in Persistence(c) : j <= i
             /\ \A j \in DOMAIN trace[c] : j > i => trace[c][j].op = "close"

\* a call that transferred the file and then could not open the temp file
\* of the info page
C11_Witness ==
  \E c \in Calls :
    /\ CallOf(c, "S3CommandLineBackend")
    /\ Finished(c)
    /\ Count(c, "system", "file") = 1
    /\ Count(c, "open", "info") = 1
    /\ FailedAt(c, Len(trace[c]))
    /\ trace[c][Len(trace[c])].op = "open"

\* C12: DebugBackend.store never fails and never persists, for a zero-byte
\* upload too: the call returns, and it has opened, written or removed no
\* file, run no command and sent no request, so the local disk, the
\* bucket and the Kloudless account are as they were before the call.
C12_DebugStoresNothing ==
  \A c \in Calls :
    CallOf(c, "DebugBackend") =>
      /\ pc[c] \in {"debug_store", "done"}
      /\ Finished(c) => result[c] = Returned
      /\ \A i \in DOMAIN trace[c] : trace[c][i].op = "print"
      /\ fs = <<>>
      /\ nextIno = 1
      /\ s3objects = <<>>
      /\ kfiles = {}

\* a finished store of a zero-byte upload that printed its size
C12_Witness ==
  \E c \in Calls :
    /\ CallOf(c, "DebugBackend")
    /\ Finished(c)
    /\ sf[c].size = 0
    /\ sf[c].chunks = <<>>
    /\ trace[c][3].arg = <<"\tSize: ", "0", " bytes">>

\* C13: constructing a backend does no I/O and does not fail, whatever the
\* options mapping, one that lacks keys store needs included: a
\* get_backend call for a registered name returns, the instance holds
\* exactly the configured options, and the disk, the bucket, the account
\* and every call's operations are unchanged by it.
C13_ConstructOnlyCaptures ==
  [][Len(getres') > Len(getres) =>
       /\ UNCHANGED <<fs, nextIno, s3objects, kfiles, trace, pc, result>>
       /\ settings.name \in DOMAIN backends =>
            /\ getres'[Len(getres')] = Returned
            /\ backend'.class = backends[settings.name]
            /\ backend'.options = settings.options
            /\ made' = Append(made, backend')]_vars

\* a KloudlessBackend built from options without info_parent_id
C13_Witness ==
  /\ backend.class = "KloudlessBackend"
  /\ "info_parent_id" \notin DOMAIN backend.options
  /\ backend.options = CfgKloudlessNoInfoParent.options
  /\ getres = <<Returned>>
  /\ fs = <<>>

\* the template with its one placeholder cut out and the value put in its
\* place
Fill(template, value) ==
  LET i == CHOOSE k \in DOMAIN template : template[k] = Field
  IN  SubSeq(template, 1, i - 1) \o value
        \o SubSeq(template, i + 1, Len(template))

\* how often text part occurs in text whole
Occurrences(whole, part) ==
  Cardinality({i \in 1..(Len(whole) - Len(part) + 1) :
                 SubSeq(whole, i, i + Len(part) - 1) = part})

\* text dest is the template with the value in place of the placeholder:
\* the whole upload name is in it exactly once and no placeholder is left
Templated(dest, template, value, name) ==
  /\ dest = Fill(template, value)
  /\ Len(dest) = Len(template) - 1 + Len(value)
  /\ Occurrences(dest, name) = 1
  /\ \A k \in DOMAIN dest : dest[k] # Field

\* the last operation of call c
Last(c) == trace[c][Len(trace[c])]

\* C14: every destination a store call uses is its configured template
\* with the placeholder replaced by the whole name exactly once: the
\* paths FileBackend opens; the artifact name of S3CommandLineBackend,
\* the temp path it opens (tmp_path filled with the artifact name) and the
\* two paths of its copy command; the name KloudlessBackend posts. (Each
\* of these operations is the last of its call's trace in the state after
\* it, so the last operation of the latest call is checked in each state.)
C14_DestinationsAreTemplates ==
  \A c \in Calls :
    Current(c) /\ trace[c] # <<>> =>
      LET e == Last(c)
          opt == backend.options
          name == sf[c].name
      IN  /\ CallOf(c, "FileBackend") /\ e.op = "open" =>
               Templated(e.arg,
                         IF e.art = "file" THEN opt.file_path
                         ELSE opt.info_path,
                         name, name)
          /\ CallOf(c, "S3CommandLineBackend") /\ e.op = "open" =>
               LET artname == Fill(opt[NameKey(e.art)], name)
               IN  /\ Templated(artname, opt[NameKey(e.art)], name, name)
                   /\ Templated(e.arg, opt.tmp_path, artname, name)
          /\ CallOf(c, "S3CommandLineBackend") /\ e.op = "system" =>
               LET argv == Argv(e.arg)
               IN  /\ Len(argv) = 5
                   /\ Templated(argv[5], opt[S3PathKey(e.art)], name, name)
                   /\ argv =
                        <<<<"a", "w", "s">>, <<"s", "3">>, <<"c", "p">>,
                          Fill(opt.tmp_path, Fill(opt[NameKey(e.art)], name)),
                          Fill(opt[S3PathKey(e.art)], name)>>
          /\ CallOf(c, "KloudlessBackend") /\ e.op = "post" =>
               Templated(e.arg, opt[NameKey(e.art)], name, name)

\* a copy command of the info page of an upload with a three-character
\* name, under the options with prefixed artifact names
C14_Witness ==
  \E c \in Calls :
    /\ CallOf(c, "S3CommandLineBackend")
    /\ backend.options = CfgS3Prefixed.options
    /\ sf[c].name = NameAH
    /\ \E i \in DOMAIN trace[c] :
         /\ trace[c][i].op = "system"
         /\ trace[c][i].art = "info"
         /\ Argv(trace[c][i].arg)[4] = DirTm \o <<"i", "-", "a", ".", "h">>

\* C15: in S3CommandLineBackend.store, a refused open or write of an
\* artifact's temp file, or a refused removal of it after the copy, reaches
\* the caller as a BackendException with the generic display message and
\* an internal message that embeds the I/O error; and after a refused write
\* no copy command is run for that artifact.
C15_S3IOFailureIsBackendError ==
  \A c \in Calls :
    CallOf(c, "S3CommandLineBackend") =>
      \A i \in FailedIO(c) :
        /\ Finished(c) =>
             /\ IsBackendError(result[c])
             /\ Embeds(result[c].internal, StrError(trace[c][i].op))
        /\ trace[c][i].op = "write" =>
             \A j \in DOMAIN trace[c] :
               j > i => trace[c][j].op # "system"

\* the positions before i in call c's trace of operation op on artifact
\* art that ended with the given status
Before(c, i, op, art, status) ==
  {j \in 1..(i - 1) :
     /\ trace[c][j].op = op
     /\ trace[c][j].art = art
     /\ trace[c][j].status = status}

\* the temp paths call c has created
Created(c) ==
  {trace[c][i].arg : i \in Before(c, Len(trace[c]) + 1, "open", "file", 0)
                       \cup Before(c, Len(trace[c]) + 1, "open", "info", 0)}

\* C16: S3CommandLineBackend.store handles the two artifacts strictly one
\* after the other: when the copy command of an artifact runs, its temp
\* file has been opened, every piece written and the file closed, and it
\* holds the whole content; nothing is done for the info page before the
\* file's copy command returned 0 and the file's temp file was removed; so
\* at most one temp file the call created exists at any moment.
C16_OneArtifactAtATime ==
  \A c \in Calls :
    CallOf(c, "S3CommandLineBackend") /\ Current(c) =>
      /\ \A i \in DOMAIN trace[c] :
           LET e == trace[c][i]
           IN  /\ e.op = "system" =>
                    /\ Cardinality(Before(c, i, "open", e.art, 0)) = 1
                    /\ Cardinality(Before(c, i, "write", e.art, 0))
                         = Len(Pieces(e.art, sf[c]))
                    /\ trace[c][i - 1] = Ev("close", e.art, TempPathAt(c, i), 0)
               /\ e.art = "info" =>
                    \E j \in Before(c, i, "system", "file", 0) :
                      \E k \in Before(c, i, "remove", "file", 0) : j < k
      /\ pc[c] = "s3_system" =>
           Holds(loc[c].path, Concat(Pieces(Artifacts[loc[c].i], sf[c])))
      /\ Cardinality(Created(c) \cap DOMAIN fs) <= 1

\* a call that wrote a file of two chunks, copied and removed it, and has
\* now written the info page's temp file, the only temp file on disk
C16_Witness ==
  \E c \in Calls :
    /\ CallOf(c, "S3CommandLineBackend")
    /\ pc[c] = "s3_system"
    /\ loc[c].i = 2
    /\ Len(sf[c].chunks) = 2
    /\ Cardinality(Created(c)) = 2
    /\ DOMAIN fs = {loc[c].path}

\* C17: the remote backends never roll back the file: when the info page's
\* transfer fails after the file's succeeded, store raises a
\* BackendException and the file's remote copy stays as transferred; the
\* call has run no command but its two copy commands and sent nothing but
\* its two uploads. In S3CommandLineBackend the file's temp file is gone
\* and the info page's temp file is still on disk with its content.
C17_FileStaysAfterInfoFails ==
  \A c \in Calls :
    LET opt == backend.options
        f == sf[c]
    IN  /\ ( /\ CallOf(c, "S3CommandLineBackend")
             /\ JustEnded(c)
             /\ trace[c] # <<>>
             /\ Last(c).op = "system"
             /\ Last(c).art = "info" )
           => /\ Last(c).status # 0
              /\ IsBackendError(result[c])
              /\ Format(opt.file_s3path, f.name) \in DOMAIN s3objects
              /\ s3objects[Format(opt.file_s3path, f.name)] = Concat(f.chunks)
              /\ Format(opt.info_s3path, f.name) \in DOMAIN s3objects =>
                   \E d \in Calls : d < c /\ result[d] = Returned
              /\ Format(opt.tmp_path, Format(opt.file_name, f.name))
                   \notin DOMAIN fs
              /\ Holds(Format(opt.tmp_path, Format(opt.info_name, f.name)),
                       Utf8(f.info_html))
              /\ \A i \in DOMAIN trace[c] :
                   /\ trace[c][i].op \in
                        {"open", "write", "close", "system", "remove"}
                   /\ trace[c][i].op = "system" =>
                        SubSeq(Argv(trace[c][i].arg), 1, 3)
                          = <<<<"a", "w", "s">>, <<"s", "3">>, <<"c", "p">>>>
                   /\ trace[c][i].op = "remove" =>
                        trace[c][i].arg
                          = Format(opt.tmp_path, Format(opt.file_name, f.name))
              /\ Count(c, "system", "file") = 1
              /\ Count(c, "system", "info") = 1
        /\ ( /\ CallOf(c, "KloudlessBackend")
             /\ JustEnded(c)
             /\ Posts(c, "info") # {} )
           => /\ Len(trace[c]) = 2
              /\ trace[c][1] = Ev("post", "file",
                                  Format(opt.file_name, f.name), 201)
              /\ trace[c][2].op = "post"
              /\ [account |-> opt.account_id,
                  name |-> Format(opt.file_name, f.name),
                  parent_id |-> opt.file_parent_id,
                  data |-> Concat(f.chunks)] \in kfiles
              /\ trace[c][2].status # 201 => IsBackendError(result[c])

\* a call whose file was copied and whose info page's copy command failed
C17_Witness ==
  \E c \in Calls :
    /\ CallOf(c, "S3CommandLineBackend")
    /\ JustEnded(c)
    /\ trace[c] # <<>>
    /\ Last(c).op = "system"
    /\ Last(c).art = "info"
    /\ Last(c).status # 0
    /\ sf[c].chunks # <<>>
    /\ DOMAIN s3objects = {Format(backend.options.file_s3path, sf[c].name)}

\* the store calls that ended with a BackendException
Refused == {c \in Calls : result[c].kind = "raised"
                            /\ result[c].exc = "BackendException"}

\* C18: every BackendException a store call raises has the one fixed
\* display message: any two of them, whatever the upload, the exit status
\* or the status code, have the same display message, and none of the
\* texts of the internal message (the status, the command line with its
\* paths) is part of it.
C18_DisplayIsFixed ==
  \A c \in Refused :
    Current(c) =>
      /\ result[c].display = <<"Sorry, we weren't able to save your file.">>
      /\ \A d \in Refused : result[d].display = result[c].display
      /\ \A i \in DOMAIN result[c].internal :
           /\ result[c].internal[i] \in {"Received ", " status code"} \/
                \A k \in DOMAIN result[c].display :
                  result[c].display[k] # result[c].internal[i]
      /\ \A i \in DOMAIN trace[c] :
           trace[c][i].op \in {"system", "post"} /\ FailedAt(c, i) =>
             /\ Embeds(result[c].internal, Str(trace[c][i].status))
             /\ ~Embeds(result[c].display, Str(trace[c][i].status))

\* two refused store calls whose internal messages differ
C18_Witness ==
  \E c, d \in Refused :
    /\ result[c].internal # result[d].internal
    /\ sf[c].name # sf[d].name

\* the content of every file on the local disk
DiskData == [p \in DOMAIN fs |-> fs[p].data]

\* the disk content that one store of upload f onto an empty disk leaves
StoredAlone(opt, f) ==
  (Format(opt.file_path, f.name) :> Concat(f.chunks))
    @@ (Format(opt.info_path, f.name) :> Utf8(f.info_html))

\* C19: FileBackend.store replaces destinations that exist: when every
\* earlier store was for the same name, whatever it wrote, a store that
\* returns leaves on disk exactly what it would leave on an empty disk,
\* the new file bytes and the new info bytes with nothing of a longer old
\* content; so the state after several stores is that of the last alone,
\* and storing the same upload twice leaves what storing it once leaves.
C19_StoreReplaces ==
  \A c \in Calls :
    ( /\ CallOf(c, "FileBackend")
      /\ JustEnded(c)
      /\ result[c] = Returned
      /\ \A d \in Calls : d < c => sf[d].name = sf[c].name )
    => /\ DiskData = StoredAlone(backend.options, sf[c])
       /\ \A d \in Calls :
            d < c /\ sf[d] = sf[c] /\ result[d] = Returned =>
              DiskData = StoredAlone(backend.options, sf[d])

\* a store of one byte that returned after a store of three bytes under
\* the same name had returned
C19_Witness ==
  \E c \in Calls :
    /\ c > 1
    /\ CallOf(c, "FileBackend")
    /\ JustEnded(c)
    /\ result[c] = Returned
    /\ result[c - 1] = Returned
    /\ sf[c - 1].name = sf[c].name
    /\ sf[c - 1].size = 3
    /\ sf[c].size = 1

====
